---- MODULE Spec2Model ----
(***************************************************************************)
(* Model of package i18n (flotter/golib): a process-wide provider slot     *)
(* (`instance`) with the free functions Initialise, G, NG and, in the      *)
(* second version of the package, CurrentLocale.                           *)
(*                                                                         *)
(* version 1 is src/i18n/i18n.go (interface MarkerAPI),                    *)
(* version 2 is src/unnamed/part_000 (interface API, adds CurrentLocale).  *)
(***************************************************************************)
EXTENDS Integers, Sequences, FiniteSets, TLC

VARIABLES
    version,      \* which of the two package versions the process links
    instance,     \* the package variable `instance` (Nil or a provider)
    last,         \* the most recent call: operation, arguments, result
    inits,        \* history: the arguments of the Initialise calls so far
    seenUnreg     \* history: msgids looked up while the slot was empty

vars == <<version, instance, last, inits, seenUnreg>>

-----------------------------------------------------------------------------
(* Bounds *)

\* Initialise calls per behaviour
MaxInit == 3
\* the count n of NG ranges over -MaxN .. MaxN
MaxN == 2

-----------------------------------------------------------------------------
(* Values *)

\* the nil interface value: the zero value of `var instance`
Nil == "nil"

\* Stub providers supplied by the application.  Bang is the stub of the
\* package scenario, G(x) = x + "!"; Af is a catalogue-backed provider whose
\* plural rule treats 0 and 1 as singular.
Providers == {"Bang", "Af"}

Versions == {1, 2}

\* msgid arguments of G
Msgids == {"Hello", "file"}
\* msgid / msgidPlural arguments of NG (one pair has equal forms)
Singulars == {"file", "sheep"}
Plurals == {"files", "sheep"}
NRange == (0 - MaxN) .. MaxN

\* Outcomes of locale.Detect(): an error, or a language tag given as its
\* sequence of subtags (language first).
DetectOutcomes ==
    { [err |-> TRUE,  tag |-> << >>],
      [err |-> FALSE, tag |-> <<"en", "ZA">>],
      [err |-> FALSE, tag |-> <<"fr">>],
      [err |-> FALSE, tag |-> <<"de", "CH">>],
      [err |-> FALSE, tag |-> <<"zh", "Hant", "TW">>] }

NoDetect == [err |-> FALSE, tag |-> << >>]

-----------------------------------------------------------------------------
(* The provider's methods (interface MarkerAPI / API) *)

AfCatalogue(msgid) ==
    CASE msgid = "Hello" -> "Hallo"
      [] msgid = "file"  -> "leer"
      [] msgid = "files" -> "leers"
      [] msgid = "sheep" -> "skaap"
      [] OTHER -> msgid

\* P.G(msgid)
ProviderG(p, msgid) ==
    IF p = "Bang" THEN msgid \o "!" ELSE AfCatalogue(msgid)

\* P.NG(msgid, msgidPlural, n)
ProviderNG(p, msgid, msgidPlural, n) ==
    IF p = "Bang"
    THEN (IF n = 1 THEN msgid ELSE msgidPlural) \o "!"
    ELSE IF n = 0 \/ n = 1 THEN AfCatalogue(msgid) ELSE AfCatalogue(msgidPlural)

\* P.CurrentLocale(): Bang answers with a full, un-normalised locale
ProviderCurrentLocale(p) ==
    IF p = "Bang" THEN "en_ZA" ELSE "af"

-----------------------------------------------------------------------------
(* The detected tag *)

RECURSIVE TagString(_)
\* language.Tag.String(): the subtags joined by "-"
TagString(tag) ==
    IF Len(tag) = 0 THEN ""
    ELSE IF Len(tag) = 1 THEN tag[1]
    ELSE tag[1] \o "-" \o TagString(Tail(tag))

\* base, _ := tag.Base(); base.String(): the language subtag
TagBase(tag) == tag[1]

-----------------------------------------------------------------------------
(* The package functions: the value each one returns, resp. stores *)

\* faulty variant: registering the installed provider again unregisters it
Initialise_v1_toggle(inst, markers) ==
    IF inst = markers THEN Nil ELSE markers

\* faulty variant: a nil argument is rejected and the previous provider kept
Initialise_v1_validating(inst, markers) ==
    IF markers = Nil THEN inst ELSE markers

\* version 1: func Initialise(markers MarkerAPI) { instance = markers }
Initialise_v1(inst, markers) == markers

\* faulty variant: the first registration wins
Initialise_v2_once(inst, api) ==
    IF inst # Nil THEN inst ELSE api

\* version 2: func Initialise(api API) { instance = api }
Initialise_v2(inst, api) == api

\* faulty variant: the unregistered lookup yields the empty string
G_v1_empty(inst, msgid) ==
    IF inst = Nil THEN "" ELSE ProviderG(inst, msgid)

\* version 1: func G(msgid string) string
G_v1(inst, msgid) ==
    IF inst = Nil THEN msgid ELSE ProviderG(inst, msgid)

\* faulty variant: results of unregistered lookups are memoised
G_v2_latched(inst, msgid) ==
    IF inst = Nil \/ msgid \in seenUnreg THEN msgid ELSE ProviderG(inst, msgid)

\* version 2: func G(msgid string) string
G_v2(inst, msgid) ==
    IF inst = Nil THEN msgid ELSE ProviderG(inst, msgid)

\* faulty variant: plural only for n > 1
NG_v1_positive(inst, msgid, msgidPlural, n) ==
    IF inst = Nil
    THEN IF n > 1 THEN msgidPlural ELSE msgid
    ELSE ProviderNG(inst, msgid, msgidPlural, n)

\* version 1: func NG(msgid string, msgidPlural string, n int) string
NG_v1(inst, msgid, msgidPlural, n) ==
    IF inst = Nil
    THEN IF n = 1 THEN msgid ELSE msgidPlural
    ELSE ProviderNG(inst, msgid, msgidPlural, n)

\* faulty variant: the facade applies the n == 1 rule before delegating
NG_v2_override(inst, msgid, msgidPlural, n) ==
    IF inst = Nil \/ n = 1
    THEN msgid
    ELSE ProviderNG(inst, msgid, msgidPlural, n)

\* faulty variant: version 2 keeps the version 1 plural heuristic
NG_v2_heuristic(inst, msgid, msgidPlural, n) ==
    IF inst = Nil
    THEN IF n = 1 THEN msgid ELSE msgidPlural
    ELSE ProviderNG(inst, msgid, msgidPlural, n)

\* version 2: func NG(msgid string, msgidPlural string, n int) string
NG_v2(inst, msgid, msgidPlural, n) ==
    IF inst = Nil
    THEN msgid
    ELSE ProviderNG(inst, msgid, msgidPlural, n)

\* faulty variant: the detected tag is returned whole
CurrentLocale_fulltag(inst, det) ==
    IF inst = Nil
    THEN IF det.err THEN "en" ELSE TagString(det.tag)
    ELSE ProviderCurrentLocale(inst)

\* version 2: func CurrentLocale() string; det is what locale.Detect() yields
CurrentLocale(inst, det) ==
    IF inst = Nil
    THEN IF det.err THEN "en" ELSE TagBase(det.tag)
    ELSE ProviderCurrentLocale(inst)

-----------------------------------------------------------------------------
(* Calls *)

Call(op, msgid, msgidPlural, n, arg, det, ret, pre) ==
    [op |-> op, msgid |-> msgid, msgidPlural |-> msgidPlural, n |-> n,
     arg |-> arg, det |-> det, ret |-> ret, pre |-> pre]

IsLookup == last.op \in {"G", "NG", "CurrentLocale"}

\* number of Initialise calls made so far
nInit == Len(inits)
\* argument of the most recent Initialise call
lastArg == IF nInit = 0 THEN Nil ELSE inits[nInit]
\* some earlier Initialise call, not the most recent one, passed a provider
hadProvider == \E i \in 1 .. (nInit - 1) : inits[i] # Nil

Init ==
    /\ version \in Versions
    /\ instance = Nil
    /\ last = Call("start", "", "", 0, Nil, NoDetect, "", Nil)
    /\ inits = << >>
    /\ seenUnreg = {}

\* a call Initialise(markers); markers may be the nil interface value
CallInitialise(markers) ==
    /\ nInit < MaxInit
    /\ instance' = IF version = 1 THEN Initialise_v1(instance, markers)
                                  ELSE Initialise_v2(instance, markers)
    /\ last' = Call("Initialise", "", "", 0, markers, NoDetect, "", instance)
    /\ inits' = Append(inits, markers)
    /\ UNCHANGED <<version, seenUnreg>>

\* a call G(msgid)
CallG(msgid) ==
    /\ last' = Call("G", msgid, "", 0, Nil, NoDetect,
                    IF version = 1 THEN G_v1(instance, msgid)
                                   ELSE G_v2(instance, msgid),
                    instance)
    /\ seenUnreg' = IF instance = Nil THEN seenUnreg \cup {msgid} ELSE seenUnreg
    /\ UNCHANGED <<version, instance, inits>>

\* a call NG(msgid, msgidPlural, n)
CallNG(msgid, msgidPlural, n) ==
    /\ last' = Call("NG", msgid, msgidPlural, n, Nil, NoDetect,
                    IF version = 1 THEN NG_v1(instance, msgid, msgidPlural, n)
                                   ELSE NG_v2(instance, msgid, msgidPlural, n),
                    instance)
    /\ seenUnreg' = IF instance = Nil THEN seenUnreg \cup {msgid} ELSE seenUnreg
    /\ UNCHANGED <<version, instance, inits>>

\* faulty variant: a failed detection installs a default provider for later calls
CallCurrentLocale_lazy(det) ==
    /\ version = 2
    /\ instance = Nil => det \in DetectOutcomes
    /\ instance # Nil => det = NoDetect
    /\ last' = Call("CurrentLocale", "", "", 0, Nil, det,
                    CurrentLocale(instance, det), instance)
    /\ instance' = IF instance = Nil /\ det.err THEN "Af" ELSE instance
    /\ UNCHANGED <<version, inits, seenUnreg>>

\* a call CurrentLocale() (version 2 only); locale.Detect() runs only when
\* the slot is empty
CallCurrentLocale(det) ==
    /\ version = 2
    /\ instance = Nil => det \in DetectOutcomes
    /\ instance # Nil => det = NoDetect
    /\ last' = Call("CurrentLocale", "", "", 0, Nil, det,
                    CurrentLocale(instance, det), instance)
    /\ UNCHANGED <<version, instance, inits, seenUnreg>>

Next ==
    \/ \E markers \in Providers \cup {Nil} : CallInitialise(markers)
    \/ \E msgid \in Msgids : CallG(msgid)
    \/ \E msgid \in Singulars, msgidPlural \in Plurals, n \in NRange :
            CallNG(msgid, msgidPlural, n)
    \/ \E det \in DetectOutcomes \cup {NoDetect} : CallCurrentLocale(det)

Spec == Init /\ [][Next]_vars

-----------------------------------------------------------------------------
(* The shape of the state *)

TypeOK ==
    /\ version \in Versions
    /\ instance \in Providers \cup {Nil}
    /\ nInit \in 0 .. MaxInit
    /\ \A i \in 1 .. nInit : inits[i] \in Providers \cup {Nil}
    /\ seenUnreg \subseteq (Msgids \cup Singulars)
    /\ last.op \in {"start", "Initialise", "G", "NG", "CurrentLocale"}

-----------------------------------------------------------------------------
(* Properties *)

\* C1: in both versions, while no provider is registered G(msgid) returns
\* msgid unchanged, and the slot is empty for as long as Initialise has not
\* been called.
C1_GIdentityWhenUnregistered ==
    /\ nInit = 0 => instance = Nil
    /\ (last.op = "G" /\ last.pre = Nil) => last.ret = last.msgid

\* a G call made before any Initialise call has returned its msgid
C1_Witness ==
    /\ nInit = 0
    /\ last.op = "G"
    /\ last.msgid = "Hello"
    /\ last.ret = "Hello"

\* C2: with a provider P registered every lookup returns exactly what P's
\* method of the same name returns for the same arguments, for every n, and
\* CurrentLocale returns P's locale without normalising it.
C2_DelegatesToProvider ==
    last.pre # Nil =>
        /\ last.op = "G" => last.ret = ProviderG(last.pre, last.msgid)
        /\ last.op = "NG" =>
              last.ret = ProviderNG(last.pre, last.msgid, last.msgidPlural, last.n)
        /\ last.op = "CurrentLocale" => last.ret = ProviderCurrentLocale(last.pre)

\* NG(s, p, 1) went to a provider whose answer is not the bare singular s
C2_Witness ==
    /\ last.op = "NG"
    /\ last.pre = "Bang"
    /\ last.n = 1
    /\ last.msgid = "file"
    /\ last.ret = "file!"

\* C3: version 1, no provider: NG(s, p, n) is s when n = 1 and p for every
\* other n, zero and negative counts included.
C3_V1PluralFallback ==
    (version = 1 /\ last.op = "NG" /\ last.pre = Nil) =>
        /\ last.n = 1 => last.ret = last.msgid
        /\ last.n # 1 => last.ret = last.msgidPlural

\* version 1 answered a negative count with the plural form
C3_Witness ==
    /\ version = 1
    /\ last.op = "NG"
    /\ last.pre = Nil
    /\ last.n = 0 - 1
    /\ last.msgid = "file"
    /\ last.ret = "files"

\* C4: version 2, no provider: NG(s, p, n) is s for every n; it agrees with
\* the version 1 rule exactly when n = 1 or s = p.
C4_V2SingularFallback ==
    (version = 2 /\ last.op = "NG" /\ last.pre = Nil) =>
        /\ last.ret = last.msgid
        /\ (last.ret = (IF last.n = 1 THEN last.msgid ELSE last.msgidPlural))
              <=> (last.n = 1 \/ last.msgid = last.msgidPlural)

\* version 2 answered n = 2 with the singular form
C4_Witness ==
    /\ version = 2
    /\ last.op = "NG"
    /\ last.pre = Nil
    /\ last.n = 2
    /\ last.msgid = "file"
    /\ last.msgidPlural = "files"
    /\ last.ret = "file"

\* C5: after any sequence of Initialise calls the slot holds the argument of
\* the most recent one, no call is rejected, and every later lookup observes
\* that provider only.
C5_LastWriteWins ==
    /\ nInit > 0 => instance = lastArg
    /\ last.op = "Initialise" => instance = last.arg
    /\ (IsLookup /\ nInit > 0) => last.pre = lastArg
    /\ (IsLookup /\ nInit > 0 /\ lastArg # Nil) =>
          /\ last.op = "G" => last.ret = ProviderG(lastArg, last.msgid)
          /\ last.op = "NG" =>
                last.ret = ProviderNG(lastArg, last.msgid, last.msgidPlural, last.n)
          /\ last.op = "CurrentLocale" => last.ret = ProviderCurrentLocale(lastArg)

\* Bang was replaced by Af and a later G call got Af's translation
C5_Witness ==
    /\ inits = <<"Bang", "Af">>
    /\ last.op = "G"
    /\ last.msgid = "Hello"
    /\ last.ret = "Hallo"

\* C6 as stated: once the slot holds a provider, no call empties it.
C6_NeverResetToEmpty ==
    [][instance # Nil => instance' # Nil]_vars

\* C6 amended: a non-empty slot becomes empty only by a call Initialise(nil);
\* G, NG, CurrentLocale and Initialise with a provider leave it non-empty.
C6_EmptiedOnlyByInitialiseNil ==
    [][(instance # Nil /\ instance' = Nil)
          => (last'.op = "Initialise" /\ last'.arg = Nil)]_vars

\* a provider was replaced by another and lookups followed: still non-empty
C6_Witness ==
    /\ nInit >= 2
    /\ \A i \in 1 .. nInit : inits[i] # Nil
    /\ IsLookup
    /\ instance # Nil

\* C7: Initialise accepts nil; after it, even when a provider was registered
\* before, the slot is empty and G, NG and CurrentLocale give the unregistered
\* answers of the version.
C7_NilUnregisters ==
    (nInit > 0 /\ lastArg = Nil) =>
        /\ instance = Nil
        /\ last.op = "G" => last.ret = last.msgid
        /\ (last.op = "NG" /\ version = 1) =>
              last.ret = (IF last.n = 1 THEN last.msgid ELSE last.msgidPlural)
        /\ (last.op = "NG" /\ version = 2) => last.ret = last.msgid
        /\ last.op = "CurrentLocale" =>
              /\ last.det \in DetectOutcomes
              /\ last.ret = (IF last.det.err THEN "en" ELSE last.det.tag[1])

\* a provider was registered, then Initialise(nil), then G returned its msgid
C7_Witness ==
    /\ hadProvider
    /\ lastArg = Nil
    /\ last.op = "G"
    /\ last.pre = Nil
    /\ last.ret = last.msgid

\* C8: version 2, no provider: CurrentLocale always yields a string; "en"
\* when detection fails, otherwise the language subtag of the detected tag,
\* which is not the whole tag when the tag has further subtags.
C8_CurrentLocaleFallback ==
    (last.op = "CurrentLocale" /\ last.pre = Nil) =>
        /\ last.ret # ""
        /\ last.det.err => last.ret = "en"
        /\ ~last.det.err =>
              /\ last.ret = last.det.tag[1]
              /\ Len(last.det.tag) > 1 => last.ret # TagString(last.det.tag)
        /\ last.det.tag = <<"en", "ZA">> => last.ret = "en"

\* en-ZA was detected and "en" returned
C8_Witness ==
    /\ last.op = "CurrentLocale"
    /\ last.pre = Nil
    /\ ~last.det.err
    /\ TagString(last.det.tag) = "en-ZA"
    /\ last.ret = "en"

\* C9: every lookup before the first Initialise gets the fallback, and once a
\* provider P is registered the same lookup gets P's answer, also for a msgid
\* that was looked up while the slot was empty.
C9_NoLatching ==
    /\ (nInit = 0 /\ last.op = "G") => last.ret = last.msgid
    /\ (nInit = 0 /\ last.op = "NG") =>
          last.ret = (IF version = 1 /\ last.n # 1 THEN last.msgidPlural
                                                   ELSE last.msgid)
    /\ (nInit > 0 /\ lastArg # Nil /\ last.msgid \in seenUnreg) =>
          /\ last.op = "G" => last.ret = ProviderG(lastArg, last.msgid)
          /\ last.op = "NG" =>
                last.ret = ProviderNG(lastArg, last.msgid, last.msgidPlural, last.n)
    /\ (last.op = "G" /\ last.msgid = "Hello" /\ inits = <<"Bang">>) =>
          last.ret = "Hello!"

\* G("Hello") was called while unregistered, then Initialise(Bang), then
\* G("Hello") returned "Hello!"
C9_Witness ==
    /\ inits = <<"Bang">>
    /\ "Hello" \in seenUnreg
    /\ last.op = "G"
    /\ last.msgid = "Hello"
    /\ last.ret = "Hello!"

\* C10: only Initialise changes the slot; consecutive lookups observe the
\* same provider.
C10_OnlyInitialiseWrites ==
    [][/\ last'.op # "Initialise" => instance' = instance
       /\ (IsLookup /\ last'.op # "Initialise") => last'.pre = last.pre]_vars

\* detection failed in CurrentLocale and the slot is still empty
C10_Witness ==
    /\ last.op = "CurrentLocale"
    /\ last.det.err
    /\ last.pre = Nil
    /\ instance = Nil

====
